---- MODULE Spec2Model ----
(***************************************************************************)
(* A model of the JSON-backed todo server (awesome-todo-server.py).        *)
(*                                                                         *)
(* The state is the content of the two backing files (todos.json and       *)
(* todo_archive.json) plus a record of the last tool call: its name, its   *)
(* arguments, the files as they were when it started and what it returned  *)
(* or raised.  Every tool of the server is one action.                     *)
(*                                                                         *)
(* Strings the code inspects character by character (descriptions, ISO     *)
(* dates) are sequences of one-character strings; dates are records        *)
(* [year, month, day].  A value stored under "due" is tagged with its      *)
(* Python type, because the code compares str with datetime.date.          *)
(***************************************************************************)
EXTENDS Integers, Sequences, FiniteSets, Bags, TLC

VARIABLES
    todos_json,      \* content of DATA_PATH (./todos.json)
    archive_json,    \* content of todo_archive.json
    call,            \* the last tool call and its outcome
    inflight         \* requests that run step by step, and what they did so far

vars == <<todos_json, archive_json, call, inflight>>

----------------------------------------------------------------------------
(* Bounds of the model *)

\* total number of task records (active + archived) in the sequential model
MaxTasks == 2

\* longest active collection drawn for the archival model
MaxActive == 3

\* longest prior archive drawn for the archival model
MaxArchived == 1

\* longest active collection drawn for the ordering model
MaxSortLen == 3

\* longest active collection drawn for the recommendation model
MaxRecLen == 7

----------------------------------------------------------------------------
(* Characters and strings *)

Digits == <<"0", "1", "2", "3", "4", "5", "6", "7", "8", "9">>

IsDigit(c) == \E i \in 1..10 : Digits[i] = c

DigitVal(c) == (CHOOSE i \in 1..10 : Digits[i] = c) - 1

DigitChar(n) == Digits[n + 1]

\* code point of a character, for the characters that occur in stored dates
ord(c) == IF IsDigit(c) THEN 48 + DigitVal(c)
          ELSE IF c = "-" THEN 45
          ELSE IF c = " " THEN 32
          ELSE IF c = "." THEN 46
          ELSE 97

\* Python's str < str: lexicographic by code point, a proper prefix is smaller
str_lt(a, b) ==
    \E k \in 1..(Len(b)) :
        /\ \A j \in 1..(k - 1) : j <= Len(a) /\ a[j] = b[j]
        /\ \/ k = Len(a) + 1
           \/ k <= Len(a) /\ ord(a[k]) < ord(b[k])

----------------------------------------------------------------------------
(* datetime.date *)

IsLeap(y) == (y % 4 = 0 /\ y % 100 # 0) \/ y % 400 = 0

DaysInMonth(y, m) ==
    IF m = 2 THEN (IF IsLeap(y) THEN 29 ELSE 28)
    ELSE IF m \in {4, 6, 9, 11} THEN 30 ELSE 31

IsValidDate(y, m, d) ==
    /\ y \in 1..9999
    /\ m \in 1..12
    /\ d \in 1..DaysInMonth(y, m)

\* date.max
date_max == [year |-> 9999, month |-> 12, day |-> 31]

\* calendar order of two dates
date_lt(a, b) ==
    \/ a.year < b.year
    \/ a.year = b.year /\ a.month < b.month
    \/ a.year = b.year /\ a.month = b.month /\ a.day < b.day

date_le(a, b) == a = b \/ date_lt(a, b)

\* an integer as exactly two / four decimal digits
TwoDigits(n) == <<DigitChar((n \div 10) % 10), DigitChar(n % 10)>>

FourDigits(n) == <<DigitChar((n \div 1000) % 10), DigitChar((n \div 100) % 10),
                   DigitChar((n \div 10) % 10), DigitChar(n % 10)>>

\* an integer in decimal without leading zeros
RECURSIVE Decimal(_)
Decimal(n) == IF n < 10 THEN <<DigitChar(n)>> ELSE Decimal(n \div 10) \o <<DigitChar(n % 10)>>

\* variant: the date written without zero padding, as in "2024-2-9"
isoformat_unpadded(d) ==
    Decimal(d.year) \o <<"-">> \o Decimal(d.month) \o <<"-">> \o Decimal(d.day)

\* str(date) = date.isoformat(): "YYYY-MM-DD", zero padded
isoformat(d) ==
    FourDigits(d.year) \o <<"-">> \o TwoDigits(d.month) \o <<"-">> \o TwoDigits(d.day)

NumberOf(s) ==
    IF Len(s) = 2 THEN 10 * DigitVal(s[1]) + DigitVal(s[2])
    ELSE 1000 * DigitVal(s[1]) + 100 * DigitVal(s[2]) + 10 * DigitVal(s[3]) + DigitVal(s[4])

\* whether a string is a calendar date in the form YYYY-MM-DD
IsIsoDate(s) ==
    /\ Len(s) = 10
    /\ s[5] = "-" /\ s[8] = "-"
    /\ \A i \in {1, 2, 3, 4, 6, 7, 9, 10} : IsDigit(s[i])
    /\ IsValidDate(NumberOf(SubSeq(s, 1, 4)), NumberOf(SubSeq(s, 6, 7)),
                   NumberOf(SubSeq(s, 9, 10)))

\* the date a string in the form YYYY-MM-DD denotes
fromisoformat(s) ==
    [year  |-> NumberOf(SubSeq(s, 1, 4)),
     month |-> NumberOf(SubSeq(s, 6, 7)),
     day   |-> NumberOf(SubSeq(s, 9, 10))]

----------------------------------------------------------------------------
(* Python values stored under "due": a str or a datetime.date *)

PyStr(s) == [type |-> "str", chars |-> s]

PyDate(d) == [type |-> "date", date |-> d]

\* json.dump(..., default=str): a date, which JSON cannot encode, becomes str(date)
json_default(v) == IF v.type = "date" THEN PyStr(isoformat(v.date)) ELSE v

\* dict.get(key, default) for the "due" key
get_due(t, default) == IF "due" \in DOMAIN t THEN t.due ELSE default

get_bool(t, key, default) == IF key \in DOMAIN t THEN t[key] ELSE default

----------------------------------------------------------------------------
(* The Task model *)

RequiredFields == {"id", "title", "description", "due", "important", "urgent"}

\* pydantic's validation of the "due" field: a date, or a string that is one
DueIsValid(v) == v.type = "date" \/ (v.type = "str" /\ IsIsoDate(v.chars))

DueAsDate(v) == IF v.type = "date" THEN v.date ELSE fromisoformat(v.chars)

\* variant: only the presence of the required fields is checked
TaskIsValid_fields_only(t) == RequiredFields \subseteq DOMAIN t

\* whether Task(**t) succeeds for a dict t
TaskIsValid(t) ==
    /\ RequiredFields \subseteq DOMAIN t
    /\ DueIsValid(t.due)

\* Task(**t): the validated model; subtasks and completed take their defaults
Task(t) ==
    [id          |-> t.id,
     title       |-> t.title,
     description |-> t.description,
     due         |-> DueAsDate(t.due),
     important   |-> t.important,
     urgent      |-> t.urgent,
     subtasks    |-> IF "subtasks" \in DOMAIN t THEN t.subtasks ELSE <<>>,
     completed   |-> IF "completed" \in DOMAIN t THEN t.completed ELSE FALSE]

\* Task.model_dump(): a dict of the fields, "due" still a datetime.date
model_dump(task) ==
    [id          |-> task.id,
     title       |-> task.title,
     description |-> task.description,
     due         |-> PyDate(task.due),
     important   |-> task.important,
     urgent      |-> task.urgent,
     subtasks    |-> task.subtasks,
     completed   |-> task.completed]

----------------------------------------------------------------------------
(* The backing files *)

\* a file is missing, holds bytes that are not UTF-8 text ("unreadable"),
\* holds text that is not JSON ("malformed", or "truncated" when it is empty),
\* holds JSON that is not a list ("nonlist"), or holds a list of task dicts
MissingFile == [kind |-> "missing", data |-> <<>>]

UnreadableFile == [kind |-> "unreadable", data |-> <<>>]

MalformedFile == [kind |-> "malformed", data |-> <<>>]

NonListFile == [kind |-> "nonlist", data |-> <<>>]

\* the file right after open(path, "w"): empty
TruncatedFile == [kind |-> "truncated", data |-> <<>>]

ListFile(tasks) == [kind |-> "list", data |-> tasks]

\* json.dump(tasks, f, default=str) of a list of dicts
json_dump(tasks) ==
    [i \in 1..Len(tasks) |->
        IF "due" \in DOMAIN tasks[i]
        THEN [tasks[i] EXCEPT !.due = json_default(tasks[i].due)]
        ELSE tasks[i]]

\* _load_tasks: the list in the file; [] when the file is missing, is not
\* JSON or is not a list
load_tasks(file) == IF file.kind = "list" THEN file.data ELSE <<>>

\* reading the file raises: decoding its bytes fails with UnicodeDecodeError,
\* which no except clause of the readers names
load_raises(file) == file.kind = "unreadable"

save_tasks(tasks) == ListFile(json_dump(tasks))

----------------------------------------------------------------------------
(* Outcomes of a tool call *)

Returned(v) == [raised |-> "none", value |-> v]

Raised(e) == [raised |-> e, value |-> <<>>]

NoArgs == [given |-> {}]

Called(op, task_id, args, ret) ==
    [op          |-> op,
     task_id     |-> task_id,
     args        |-> args,
     pre_todos   |-> todos_json,
     pre_archive |-> archive_json,
     ret         |-> ret]

----------------------------------------------------------------------------
(* Lookups and dict updates *)

\* variant: any dict that has an id matches
has_id_any(t, task_id) == "id" \in DOMAIN t

\* t.get("id") == task_id
has_id(t, task_id) == "id" \in DOMAIN t /\ t.id = task_id

\* variant: the last dict whose id matches
last_match(tasks, task_id) ==
    IF \E i \in 1..Len(tasks) : "id" \in DOMAIN tasks[i] /\ tasks[i].id = task_id
    THEN CHOOSE i \in 1..Len(tasks) :
            /\ "id" \in DOMAIN tasks[i] /\ tasks[i].id = task_id
            /\ \A j \in (i + 1)..Len(tasks) :
                  ~("id" \in DOMAIN tasks[j] /\ tasks[j].id = task_id)
    ELSE 0

\* position of the first dict whose id matches (0 when there is none): the
\* generator expression and the for loops stop at the first match
first_match(tasks, task_id) ==
    IF \E i \in 1..Len(tasks) : has_id(tasks[i], task_id)
    THEN CHOOSE i \in 1..Len(tasks) :
            /\ has_id(tasks[i], task_id)
            /\ \A j \in 1..(i - 1) : ~has_id(tasks[j], task_id)
    ELSE 0

\* t[key] = value
dict_set(t, key, value) ==
    [k \in DOMAIN t \cup {key} |-> IF k = key THEN value ELSE t[k]]

\* t.get(key), shown as None when the key is absent
dict_get(t, key) == IF key \in DOMAIN t THEN t[key] ELSE "None"

----------------------------------------------------------------------------
(* str.split and str.strip, as decompose_task uses them *)

\* characters str.strip() removes (the ones the descriptions here contain)
IsSpace(c) == c \in {" ", "\n"}

RECURSIVE lstrip(_)
lstrip(s) == IF s # <<>> /\ IsSpace(Head(s)) THEN lstrip(Tail(s)) ELSE s

RECURSIVE rstrip(_)
rstrip(s) ==
    IF s # <<>> /\ IsSpace(s[Len(s)]) THEN rstrip(SubSeq(s, 1, Len(s) - 1)) ELSE s

strip(s) == rstrip(lstrip(s))

\* description.split("."): the pieces between the full stops, empty ones included
RECURSIVE split(_, _)
split(s, sep) ==
    IF \E i \in 1..Len(s) : s[i] = sep
    THEN LET i == CHOOSE i \in 1..Len(s) :
                    s[i] = sep /\ \A j \in 1..(i - 1) : s[j] # sep
         IN  <<SubSeq(s, 1, i - 1)>> \o split(SubSeq(s, i + 1, Len(s)), sep)
    ELSE <<s>>

NonEmpty(s) == s # <<>>

\* variant: the pieces are kept as split, not trimmed
sentence_parts_untrimmed(description) ==
    LET pieces == split(description, ".")
        NotBlank(piece) == strip(piece) # <<>>
    IN  SelectSeq(pieces, NotBlank)

\* [s.strip() for s in description.split(".") if s.strip()]
sentence_parts(description) ==
    LET pieces == split(description, ".")
        stripped == [i \in 1..Len(pieces) |-> strip(pieces[i])]
    IN  SelectSeq(stripped, NonEmpty)

----------------------------------------------------------------------------
(* The Eisenhower ordering *)

\* variant: the booleans are not inverted
sort_key_not_inverted(t) ==
    <<get_bool(t, "important", FALSE),
      get_bool(t, "urgent", FALSE),
      get_due(t, PyDate(date_max))>>

\* sort_key(t): (not important, not urgent, due or date.max)
sort_key(t) ==
    <<~get_bool(t, "important", FALSE),
      ~get_bool(t, "urgent", FALSE),
      get_due(t, PyDate(date_max))>>

\* bool < bool in Python: False < True
bool_lt(a, b) == ~a /\ b

\* a < b for two values stored under "due" that have the same Python type
due_lt(a, b) ==
    IF a.type = "str" THEN str_lt(a.chars, b.chars) ELSE date_lt(a.date, b.date)

\* tuple < tuple: the first position where the keys differ decides
key_lt(a, b) ==
    IF a[1] # b[1] THEN bool_lt(a[1], b[1])
    ELSE IF a[2] # b[2] THEN bool_lt(a[2], b[2])
    ELSE IF a[3] # b[3] THEN due_lt(a[3], b[3])
    ELSE FALSE

\* comparing the two keys raises TypeError: the booleans tie and the third
\* components are a str and a datetime.date
key_cmp_raises(a, b) ==
    a[1] = b[1] /\ a[2] = b[2] /\ a[3].type # b[3].type

\* sorted(tasks, key=sort_key) raises TypeError
sorted_raises(tasks) ==
    \E i, j \in 1..Len(tasks) :
        key_cmp_raises(sort_key(tasks[i]), sort_key(tasks[j]))

\* variant: x goes in front of the elements with an equal key
insort_before_equal(prefix, x) ==
    LET p == Cardinality({i \in 1..Len(prefix) :
                            key_lt(sort_key(prefix[i]), sort_key(x))})
    IN  SubSeq(prefix, 1, p) \o <<x>> \o SubSeq(prefix, p + 1, Len(prefix))

\* one step of a stable insertion: x goes behind every element not greater
insort(prefix, x) ==
    LET p == Cardinality({i \in 1..Len(prefix) :
                            ~key_lt(sort_key(x), sort_key(prefix[i]))})
    IN  SubSeq(prefix, 1, p) \o <<x>> \o SubSeq(prefix, p + 1, Len(prefix))

\* sorted(tasks, key=sort_key): a stable sort
RECURSIVE sorted(_)
sorted(tasks) ==
    IF tasks = <<>> THEN <<>>
    ELSE insort(sorted(SubSeq(tasks, 1, Len(tasks) - 1)), tasks[Len(tasks)])

\* [Task(**t) for t in tasks], which raises when one dict fails validation
as_tasks(tasks) ==
    IF \A i \in 1..Len(tasks) : TaskIsValid(tasks[i])
    THEN Returned([i \in 1..Len(tasks) |-> Task(tasks[i])])
    ELSE Raised("ValidationError")

\* number of tasks recommend_tasks_for_today returns at most
TopN == 5

IsCompleted(t) == get_bool(t, "completed", FALSE)

NotCompleted(t) == ~get_bool(t, "completed", FALSE)

\* candidates = [t for t in raw_tasks if not t.get("completed", False)]
candidates(raw_tasks) == SelectSeq(raw_tasks, NotCompleted)

\* variant: the list is not truncated
top_tasks_untruncated(sorted_candidates) == sorted_candidates

\* sorted_candidates[:5]
top_tasks(sorted_candidates) ==
    SubSeq(sorted_candidates, 1,
           IF Len(sorted_candidates) < TopN THEN Len(sorted_candidates) ELSE TopN)

----------------------------------------------------------------------------
(* What each read-only tool returns for given file contents *)

list_tasks_ret(file) ==
    IF load_raises(file) THEN Raised("UnicodeDecodeError")
    ELSE as_tasks(load_tasks(file))

prioritise_tasks_ret(file) ==
    LET raw_tasks == load_tasks(file)
    IN  IF load_raises(file) THEN Raised("UnicodeDecodeError")
        ELSE IF sorted_raises(raw_tasks) THEN Raised("TypeError")
        ELSE as_tasks(sorted(raw_tasks))

\* variant: only the tasks due today or earlier are candidates
recommend_due_tasks_ret(file, today) ==
    LET IsDue(t) == NotCompleted(t) /\ date_le(DueAsDate(t.due), today)
        cands == SelectSeq(load_tasks(file), IsDue)
    IN  as_tasks(top_tasks(sorted(cands)))

\* today = date.today() is computed and then not used
recommend_tasks_for_today_ret(file, today) ==
    LET cands == candidates(load_tasks(file))
    IN  IF load_raises(file) THEN Raised("UnicodeDecodeError")
        ELSE IF sorted_raises(cands) THEN Raised("TypeError")
        ELSE as_tasks(top_tasks(sorted(cands)))

\* the explanation string, as the values the f-string interpolates
explanation(task) ==
    [msg         |-> "Task '{}' is {} and {}. It is due on {}. Description: {}",
     title       |-> dict_get(task, "title"),
     importance  |-> IF get_bool(task, "important", FALSE)
                     THEN "important" ELSE "not important",
     urgency     |-> IF get_bool(task, "urgent", FALSE)
                     THEN "urgent" ELSE "not urgent",
     due         |-> dict_get(task, "due"),
     description |-> dict_get(task, "description")]

explain_task_ret(file, task_id) ==
    LET tasks == load_tasks(file)
        i == first_match(tasks, task_id)
    IN  IF load_raises(file) THEN Raised("UnicodeDecodeError")
        ELSE IF i = 0
        THEN Returned([msg |-> "No task found with id {}.", id |-> task_id])
        ELSE Returned(explanation(tasks[i]))

view_archived_tasks_ret(file) ==
    IF load_raises(file) THEN Raised("UnicodeDecodeError")
    ELSE IF file.kind = "list" THEN as_tasks(file.data) ELSE Returned(<<>>)

----------------------------------------------------------------------------
(* The tools, one action each *)

\* add_task: validate, then load, append the dumped model, save
add_task(args) ==
    IF TaskIsValid(args) /\ load_raises(todos_json)
    THEN /\ call' = Called("add_task", 0, args, Raised("UnicodeDecodeError"))
         /\ UNCHANGED <<todos_json, archive_json>>
    ELSE IF TaskIsValid(args)
    THEN LET new_task == Task(args)
             tasks == Append(load_tasks(todos_json), model_dump(new_task))
         IN  /\ todos_json' = save_tasks(tasks)
             /\ archive_json' = archive_json
             /\ call' = Called("add_task", 0, args, Returned(new_task))
    ELSE /\ call' = Called("add_task", 0, args, Raised("ValidationError"))
         /\ UNCHANGED <<todos_json, archive_json>>

list_tasks ==
    /\ call' = Called("list_tasks", 0, NoArgs, list_tasks_ret(todos_json))
    /\ UNCHANGED <<todos_json, archive_json>>

explain_task(task_id) ==
    /\ call' = Called("explain_task", task_id, NoArgs,
                      explain_task_ret(todos_json, task_id))
    /\ UNCHANGED <<todos_json, archive_json>>

\* decompose_task: rewrite the subtasks of the first match and save, or
\* return [] without saving
decompose_task(task_id) ==
    LET tasks == load_tasks(todos_json)
        i == first_match(tasks, task_id)
    IN  IF load_raises(todos_json)
        THEN /\ call' = Called("decompose_task", task_id, NoArgs,
                               Raised("UnicodeDecodeError"))
             /\ UNCHANGED <<todos_json, archive_json>>
        ELSE IF i # 0
        THEN LET description == IF "description" \in DOMAIN tasks[i]
                                THEN tasks[i].description ELSE <<>>
                 parts == sentence_parts(description)
                 updated == [tasks EXCEPT ![i] = dict_set(tasks[i], "subtasks", parts)]
             IN  /\ todos_json' = save_tasks(updated)
                 /\ archive_json' = archive_json
                 /\ call' = Called("decompose_task", task_id, NoArgs, Returned(parts))
        ELSE /\ call' = Called("decompose_task", task_id, NoArgs, Returned(<<>>))
             /\ UNCHANGED <<todos_json, archive_json>>

\* variant: the sorted list is saved
prioritise_tasks_saving ==
    /\ call' = Called("prioritise_tasks", 0, NoArgs, prioritise_tasks_ret(todos_json))
    /\ todos_json' = IF load_raises(todos_json) \/ sorted_raises(load_tasks(todos_json))
                     THEN todos_json
                     ELSE save_tasks(sorted(load_tasks(todos_json)))
    /\ archive_json' = archive_json

prioritise_tasks ==
    /\ call' = Called("prioritise_tasks", 0, NoArgs, prioritise_tasks_ret(todos_json))
    /\ UNCHANGED <<todos_json, archive_json>>

\* the dates the server's clock may show: before, between and after the
\* due dates of the stored tasks
Todays ==
    {[year |-> 2024, month |-> 1, day |-> 1],
     [year |-> 2024, month |-> 6, day |-> 1],
     [year |-> 2025, month |-> 1, day |-> 1]}

recommend_tasks_for_today ==
    \E today \in Todays :
        /\ call' = Called("recommend_tasks_for_today", 0, [today |-> today],
                          recommend_tasks_for_today_ret(todos_json, today))
        /\ UNCHANGED <<todos_json, archive_json>>

\* variant: the flag is set on every task with the id
mark_task_completed_every(task_id) ==
    LET tasks == load_tasks(todos_json)
        updated == [i \in 1..Len(tasks) |->
                       IF has_id(tasks[i], task_id)
                       THEN dict_set(tasks[i], "completed", TRUE) ELSE tasks[i]]
    IN  /\ first_match(tasks, task_id) # 0
        /\ todos_json' = save_tasks(updated)
        /\ archive_json' = archive_json
        /\ call' = Called("mark_task_completed", task_id, NoArgs,
                          Returned([msg |-> "Task {} marked as completed.",
                                    id |-> task_id]))

\* mark_task_completed: set the flag on the first match and save, or report
\* that the id was not found without saving
mark_task_completed(task_id) ==
    LET tasks == load_tasks(todos_json)
        i == first_match(tasks, task_id)
    IN  IF load_raises(todos_json)
        THEN /\ call' = Called("mark_task_completed", task_id, NoArgs,
                               Raised("UnicodeDecodeError"))
             /\ UNCHANGED <<todos_json, archive_json>>
        ELSE IF i # 0
        THEN LET updated == [tasks EXCEPT ![i] = dict_set(tasks[i], "completed", TRUE)]
             IN  /\ todos_json' = save_tasks(updated)
                 /\ archive_json' = archive_json
                 /\ call' = Called("mark_task_completed", task_id, NoArgs,
                                   Returned([msg |-> "Task {} marked as completed.",
                                             id |-> task_id]))
        ELSE /\ call' = Called("mark_task_completed", task_id, NoArgs,
                               Returned([msg |-> "Task {} not found.",
                                         id |-> task_id]))
             /\ UNCHANGED <<todos_json, archive_json>>

\* variant: every task counts as completed
completed_tasks_unfiltered(tasks) == tasks

\* completed_tasks = [t for t in tasks if t.get("completed")]
completed_tasks(tasks) == SelectSeq(tasks, IsCompleted)

\* variant: the completed tasks stay in the active collection
incomplete_tasks_unfiltered(tasks) == tasks

\* incomplete_tasks = [t for t in tasks if not t.get("completed")]
incomplete_tasks(tasks) == SelectSeq(tasks, NotCompleted)

\* variant: the entries already in the archive are not read
read_archive_fresh(file) == <<>>

\* the archive as archive_completed_tasks reads it: the decoded list, or []
\* when the file is missing or is not JSON
read_archive(file) == IF file.kind = "list" THEN file.data ELSE <<>>

\* reading the archive or extending what was read raises: the bytes are not
\* text, or the JSON value is not a list and has no extend
read_archive_error(file) ==
    IF file.kind = "unreadable" THEN "UnicodeDecodeError"
    ELSE IF file.kind = "nonlist" THEN "AttributeError"
    ELSE "none"

\* archive_completed_tasks: nothing is written when no task is completed;
\* otherwise the incomplete tasks are saved first, then the archive is read
\* (a missing or undecodable archive counts as empty), extended and written.
\* An archive that decodes to something other than a list has no extend:
\* the call raises after the active file was rewritten.
archive_completed_tasks ==
    LET tasks == load_tasks(todos_json)
        completed == completed_tasks(tasks)
        incomplete == incomplete_tasks(tasks)
    IN  IF load_raises(todos_json)
        THEN /\ call' = Called("archive_completed_tasks", 0, NoArgs,
                               Raised("UnicodeDecodeError"))
             /\ UNCHANGED <<todos_json, archive_json>>
        ELSE IF completed = <<>>
        THEN /\ call' = Called("archive_completed_tasks", 0, NoArgs,
                               Returned([msg |-> "No completed tasks to archive.",
                                         n |-> 0]))
             /\ UNCHANGED <<todos_json, archive_json>>
        ELSE /\ todos_json' = save_tasks(incomplete)
             /\ IF read_archive_error(archive_json) # "none"
                THEN /\ archive_json' = archive_json
                     /\ call' = Called("archive_completed_tasks", 0, NoArgs,
                                       Raised(read_archive_error(archive_json)))
                ELSE LET archived_tasks == read_archive(archive_json)
                     IN  /\ archive_json' = ListFile(json_dump(archived_tasks \o completed))
                         /\ call' = Called("archive_completed_tasks", 0, NoArgs,
                                           Returned([msg |-> "Archived {} completed tasks.",
                                                     n |-> Len(completed)]))

view_archived_tasks ==
    /\ call' = Called("view_archived_tasks", 0, NoArgs,
                      view_archived_tasks_ret(archive_json))
    /\ UNCHANGED <<todos_json, archive_json>>

----------------------------------------------------------------------------
(* Inputs *)

TaskIds == {1, 2}

Feb09 == <<"2", "0", "2", "4", "-", "0", "2", "-", "0", "9">>

Oct01 == <<"2", "0", "2", "4", "-", "1", "0", "-", "0", "1">>

Feb30 == <<"2", "0", "2", "4", "-", "0", "2", "-", "3", "0">>

Month13 == <<"2", "0", "2", "4", "-", "1", "3", "-", "0", "1">>

\* the descriptions " a. b." and "c"
TwoSentences == <<" ", "a", ".", " ", "b", ".">>

OneWord == <<"c">>

ReportArgs(id) ==
    [id |-> id, title |-> "report", description |-> TwoSentences,
     due |-> PyStr(Feb09), important |-> TRUE, urgent |-> FALSE]

CallArgs(id) ==
    [id |-> id, title |-> "call", description |-> OneWord,
     due |-> PyStr(Oct01), important |-> FALSE, urgent |-> TRUE,
     subtasks |-> <<<<"d">>>>]

\* arguments that pass validation: two tasks, each with either id, with
\* completed left out or given as true
ValidArgs ==
    UNION {{ReportArgs(id), ReportArgs(id) @@ [completed |-> TRUE],
            CallArgs(id), CallArgs(id) @@ [completed |-> TRUE]} : id \in TaskIds}

\* arguments that fail validation: a required field is missing, or due is
\* not a calendar date
InvalidArgs ==
    {[id |-> 1, description |-> OneWord, due |-> PyStr(Feb09),
      important |-> TRUE, urgent |-> TRUE],
     [id |-> 1, title |-> "call", description |-> OneWord,
      important |-> TRUE, urgent |-> TRUE],
     [ReportArgs(1) EXCEPT !.due = PyStr(Feb30)],
     [CallArgs(2) EXCEPT !.due = PyStr(Month13)]}

\* number of task dicts in the two files
StoredCount == Len(load_tasks(todos_json)) + Len(load_tasks(archive_json))

----------------------------------------------------------------------------
(* The server, one call at a time, starting with no files *)

\* a tool that runs as one step leaves the step-by-step requests alone
Whole(tool) == tool /\ UNCHANGED inflight

\* no request runs step by step
NoRequests == [req |-> <<>>, log |-> <<>>]

NoCall ==
    [op |-> "none", task_id |-> 0, args |-> NoArgs,
     pre_todos |-> MissingFile, pre_archive |-> MissingFile,
     ret |-> Returned(<<>>)]

Init ==
    /\ todos_json = MissingFile
    /\ archive_json = MissingFile
    /\ call = NoCall
    /\ inflight = NoRequests

Next ==
    \/ \E args \in ValidArgs : StoredCount < MaxTasks /\ Whole(add_task(args))
    \/ \E args \in InvalidArgs : Whole(add_task(args))
    \/ Whole(list_tasks)
    \/ \E task_id \in TaskIds : Whole(explain_task(task_id))
    \/ \E task_id \in TaskIds : Whole(decompose_task(task_id))
    \/ Whole(prioritise_tasks)
    \/ Whole(recommend_tasks_for_today)
    \/ \E task_id \in TaskIds : Whole(mark_task_completed(task_id))
    \/ Whole(archive_completed_tasks)
    \/ Whole(view_archived_tasks)

Spec == Init /\ [][Next]_vars

----------------------------------------------------------------------------
(* Stored collections the tools are applied to *)

\* the dict add_task leaves in the file for given valid arguments
stored_dict(args) == json_dump(<<model_dump(Task(args))>>)[1]

\* a stored dict without its "due" key
without_due(t) == [k \in DOMAIN t \ {"due"} |-> t[k]]

SeqsUpTo(S, n) == UNION {[1..k -> S] : k \in 0..n}

\* the archival tool applied to drawn active and archive collections
ArchiveKinds ==
    {stored_dict(ReportArgs(1)), stored_dict(ReportArgs(1) @@ [completed |-> TRUE]),
     stored_dict(CallArgs(2)), stored_dict(CallArgs(2) @@ [completed |-> TRUE])}

InitArchive ==
    /\ todos_json \in {ListFile(tasks) : tasks \in SeqsUpTo(ArchiveKinds, MaxActive)}
    /\ archive_json \in {MissingFile}
                        \cup {ListFile(tasks) : tasks \in SeqsUpTo(ArchiveKinds, MaxArchived)}
    /\ call = NoCall
    /\ inflight = NoRequests

NextArchive ==
    \/ Whole(archive_completed_tasks)
    \/ Whole(view_archived_tasks)
    \/ Whole(list_tasks)

SpecArchive == InitArchive /\ [][NextArchive]_vars

----------------------------------------------------------------------------
(* Claims about archive_completed_tasks *)

FlagSet(t) == t.completed

FlagClear(t) == ~t.completed

PrevActive == call.pre_todos.data

PrevArchive == call.pre_archive.data

\* C1: when at least one active task is completed, archive_completed_tasks
\* leaves in the active collection exactly the previously incomplete records
\* in their order, leaves in the archive the previous archive followed by the
\* previously completed records in their order, and reports their number.
C1_ArchivePartitions ==
    (call.op = "archive_completed_tasks" /\ \E i \in 1..Len(PrevActive) : PrevActive[i].completed)
    => /\ todos_json = ListFile(SelectSeq(PrevActive, FlagClear))
       /\ archive_json = ListFile(PrevArchive \o SelectSeq(PrevActive, FlagSet))
       /\ call.ret.raised = "none"
       /\ call.ret.value.n = Len(SelectSeq(PrevActive, FlagSet))
       /\ call.ret.value.n = Len(PrevActive) - Len(todos_json.data)

\* two completed tasks around an incomplete one, archived behind an entry
C1_Witness ==
    /\ call.op = "archive_completed_tasks"
    /\ Len(PrevActive) = 3
    /\ PrevActive[1].completed /\ ~PrevActive[2].completed /\ PrevActive[3].completed
    /\ PrevActive[1] # PrevActive[3]
    /\ Len(PrevArchive) = 1
    /\ Len(archive_json.data) = 3
    /\ Len(todos_json.data) = 1

----------------------------------------------------------------------------
(* Claims about the server run one call at a time from empty storage *)

Active == load_tasks(todos_json)

Archived == load_tasks(archive_json)

\* position of the first previously active record with the call's id, or 0
FirstWithId ==
    IF \E i \in 1..Len(PrevActive) : PrevActive[i].id = call.task_id
    THEN CHOOSE i \in 1..Len(PrevActive) :
            /\ PrevActive[i].id = call.task_id
            /\ \A j \in 1..(i - 1) : PrevActive[j].id # call.task_id
    ELSE 0

StorageUnchanged == todos_json = call.pre_todos /\ archive_json = call.pre_archive

\* C2: no task id is in the active and in the archive collection at once.
C2_NoIdInBoth ==
    \A i \in 1..Len(Active) : \A j \in 1..Len(Archived) : Active[i].id # Archived[j].id

\* C3: with no completed active task, archive_completed_tasks writes neither
\* file and reports that nothing was archived, however often it is called.
C3_ArchiveNothingIsNoOp ==
    (call.op = "archive_completed_tasks" /\ \A i \in 1..Len(PrevActive) : ~PrevActive[i].completed)
    => /\ StorageUnchanged
       /\ call.ret = Returned([msg |-> "No completed tasks to archive.", n |-> 0])

\* nothing to archive among a non-empty active collection, an archive present
C3_Witness ==
    /\ call.op = "archive_completed_tasks"
    /\ call.ret.value.n = 0
    /\ PrevActive # <<>>
    /\ PrevArchive # <<>>

\* C4: for an id no active record has, mark_task_completed, decompose_task and
\* explain_task return their not-found result, raise nothing and leave both
\* collections as they were.
C4_NotFoundChangesNothing ==
    (call.op \in {"mark_task_completed", "decompose_task", "explain_task"} /\ FirstWithId = 0)
    => /\ StorageUnchanged
       /\ call.ret.raised = "none"
       /\ call.op = "mark_task_completed"
            => call.ret.value = [msg |-> "Task {} not found.", id |-> call.task_id]
       /\ call.op = "decompose_task" => call.ret.value = <<>>
       /\ call.op = "explain_task"
            => call.ret.value = [msg |-> "No task found with id {}.", id |-> call.task_id]

\* the id is absent from a non-empty active collection and present in the archive
C4_Witness ==
    /\ call.op = "mark_task_completed"
    /\ FirstWithId = 0
    /\ PrevActive # <<>>
    /\ \E j \in 1..Len(PrevArchive) : PrevArchive[j].id = call.task_id

\* the date a due argument denotes
ExpectedDate(chars) ==
    IF chars = Feb09 THEN [year |-> 2024, month |-> 2, day |-> 9]
    ELSE IF chars = Oct01 THEN [year |-> 2024, month |-> 10, day |-> 1]
    ELSE [year |-> 0, month |-> 0, day |-> 0]

\* the record add_task was given, with the defaults of the optional fields
GivenRecord(args) ==
    [id          |-> args.id,
     title       |-> args.title,
     description |-> args.description,
     due         |-> ExpectedDate(args.due.chars),
     important   |-> args.important,
     urgent      |-> args.urgent,
     subtasks    |-> IF "subtasks" \in DOMAIN args THEN args.subtasks ELSE <<>>,
     completed   |-> IF "completed" \in DOMAIN args THEN args.completed ELSE FALSE]

\* C8: right after add_task, list_tasks returns a list whose last element is
\* field for field the record given to add_task and returned by it.
C8_AddThenListRoundTrip ==
    (call.op = "add_task" /\ call.args \in ValidArgs)
    => LET listed == list_tasks_ret(todos_json)
       IN  /\ call.ret = Returned(GivenRecord(call.args))
           /\ listed.raised = "none"
           /\ Len(listed.value) = Len(PrevActive) + 1
           /\ listed.value[Len(listed.value)] = GivenRecord(call.args)

\* a task with given subtasks and completed = true added behind another one
C8_Witness ==
    /\ call.op = "add_task"
    /\ call.args \in ValidArgs
    /\ "subtasks" \in DOMAIN call.args
    /\ "completed" \in DOMAIN call.args
    /\ PrevActive # <<>>
    /\ list_tasks_ret(todos_json).raised = "none"

\* C9: add_task accepts an id an active task already has, appending one record
\* and leaving the others alone; mark_task_completed, decompose_task and
\* explain_task then act on the first record with that id.
C9_DuplicateIdFirstMatch ==
    /\ (call.op = "add_task" /\ call.args \in ValidArgs)
       => /\ call.ret.raised = "none"
          /\ Len(Active) = Len(PrevActive) + 1
          /\ SubSeq(Active, 1, Len(PrevActive)) = PrevActive
          /\ Active[Len(Active)].id = call.args.id
    /\ (call.op = "mark_task_completed" /\ FirstWithId # 0)
       => /\ Len(Active) = Len(PrevActive)
          /\ Active[FirstWithId].completed
          /\ \A j \in 1..Len(Active) : j # FirstWithId => Active[j] = PrevActive[j]
    /\ (call.op = "decompose_task" /\ FirstWithId # 0)
       => /\ Len(Active) = Len(PrevActive)
          /\ Active[FirstWithId].subtasks = call.ret.value
          /\ \A j \in 1..Len(Active) : j # FirstWithId => Active[j] = PrevActive[j]
    /\ (call.op = "explain_task" /\ FirstWithId # 0)
       => /\ call.ret.value.title = PrevActive[FirstWithId].title
          /\ call.ret.value.description = PrevActive[FirstWithId].description
          /\ call.ret.value.due = PrevActive[FirstWithId].due

\* two different incomplete records share the id; the call marked the first
C9_Witness ==
    /\ call.op = "mark_task_completed"
    /\ Len(PrevActive) = 2
    /\ PrevActive[1].id = call.task_id /\ PrevActive[2].id = call.task_id
    /\ PrevActive[1].title # PrevActive[2].title
    /\ ~PrevActive[1].completed /\ ~PrevActive[2].completed
    /\ Active[1].completed /\ ~Active[2].completed

\* C10: add_task given input that fails validation raises a validation error,
\* which no not-found result is, and writes neither file.
C10_InvalidAddWritesNothing ==
    (call.op = "add_task" /\ call.args \in InvalidArgs)
    => /\ call.ret.raised = "ValidationError"
       /\ StorageUnchanged

\* a date that is no calendar date, rejected with tasks already stored
C10_Witness ==
    /\ call.op = "add_task"
    /\ call.args \in InvalidArgs
    /\ "due" \in DOMAIN call.args
    /\ "title" \in DOMAIN call.args
    /\ PrevActive # <<>>
    /\ call.ret.raised # "none"

----------------------------------------------------------------------------
(* The ordering tools applied to drawn active collections *)

\* a stored task of a quadrant, due on one of two dates or without a due date
SortKinds == [important : BOOLEAN, urgent : BOOLEAN, due : {"Feb09", "Oct01", "none"}]

sort_dict(id, kind) ==
    LET t == stored_dict([id |-> id, title |-> "t", description |-> OneWord,
                          due |-> PyStr(IF kind.due = "Oct01" THEN Oct01 ELSE Feb09),
                          important |-> kind.important, urgent |-> kind.urgent])
    IN  IF kind.due = "none" THEN without_due(t) ELSE t

InitSort ==
    /\ \E n \in 0..MaxSortLen : \E kinds \in [1..n -> SortKinds] :
          todos_json = ListFile([i \in 1..n |-> sort_dict(i, kinds[i])])
    /\ archive_json = MissingFile
    /\ call = NoCall
    /\ inflight = NoRequests

NextSort ==
    \/ Whole(prioritise_tasks)
    \/ Whole(recommend_tasks_for_today)

SpecSort == InitSort /\ [][NextSort]_vars

\* incomplete stored tasks of two quadrants and a completed one
RecommendKinds ==
    {[important |-> TRUE, completed |-> FALSE],
     [important |-> FALSE, completed |-> FALSE],
     [important |-> TRUE, completed |-> TRUE]}

recommend_dict(id, kind) ==
    stored_dict([id |-> id, title |-> "t", description |-> OneWord,
                 due |-> PyStr(IF kind.important THEN Oct01 ELSE Feb09),
                 important |-> kind.important, urgent |-> TRUE,
                 completed |-> kind.completed])

InitRecommend ==
    /\ \E n \in 0..MaxRecLen : \E kinds \in [1..n -> RecommendKinds] :
          todos_json = ListFile([i \in 1..n |-> recommend_dict(i, kinds[i])])
    /\ archive_json = MissingFile
    /\ call = NoCall
    /\ inflight = NoRequests

NextRecommend ==
    \/ Whole(recommend_tasks_for_today)
    \/ Whole(prioritise_tasks)

SpecRecommend == InitRecommend /\ [][NextRecommend]_vars

----------------------------------------------------------------------------
(* Claims about the ordering tools *)

\* C5: recommend_tasks_for_today returns at most 5 records, none of them
\* completed, whatever the size of the active collection.
C5_RecommendAtMostFiveIncomplete ==
    call.op = "recommend_tasks_for_today"
    => /\ call.ret.raised = "none"
       /\ Len(call.ret.value) <= 5
       /\ \A i \in 1..Len(call.ret.value) : ~call.ret.value[i].completed

\* more than five incomplete tasks and a completed one were stored
C5_Witness ==
    /\ call.op = "recommend_tasks_for_today"
    /\ Cardinality({i \in 1..Len(PrevActive) : ~PrevActive[i].completed}) > 5
    /\ \E i \in 1..Len(PrevActive) : PrevActive[i].completed
    /\ Len(call.ret.value) = 5

AllDated(tasks) == \A i \in 1..Len(tasks) : "due" \in DOMAIN tasks[i]

\* the quadrant of a task: 1 important and urgent, 2 important only,
\* 3 urgent only, 4 neither
Quadrant(t) ==
    IF t.important THEN (IF t.urgent THEN 1 ELSE 2) ELSE (IF t.urgent THEN 3 ELSE 4)

\* the Task a stored dict is listed as
ListedAs(t) ==
    [id          |-> t.id,
     title       |-> t.title,
     description |-> t.description,
     due         |-> ExpectedDate(t.due.chars),
     important   |-> t.important,
     urgent      |-> t.urgent,
     subtasks    |-> t.subtasks,
     completed   |-> t.completed]

IsPermutationOf(result, tasks) ==
    /\ Len(result) = Len(tasks)
    /\ \E f \in [1..Len(tasks) -> 1..Len(tasks)] :
          /\ \A i, j \in 1..Len(tasks) : i # j => f[i] # f[j]
          /\ \A i \in 1..Len(tasks) : result[f[i]] = ListedAs(tasks[i])

\* C6: when every active record has a due date, prioritise_tasks returns a
\* permutation of the collection ordered by quadrant (important and urgent,
\* important only, urgent only, neither) and, within a quadrant, by
\* non-decreasing due date.
C6_PrioritiseByQuadrantThenDue ==
    (call.op = "prioritise_tasks" /\ AllDated(PrevActive))
    => /\ call.ret.raised = "none"
       /\ IsPermutationOf(call.ret.value, PrevActive)
       /\ \A i, j \in 1..Len(call.ret.value) :
             i < j => /\ Quadrant(call.ret.value[i]) <= Quadrant(call.ret.value[j])
                      /\ Quadrant(call.ret.value[i]) = Quadrant(call.ret.value[j])
                           => date_le(call.ret.value[i].due, call.ret.value[j].due)

\* three dated tasks stored in the reverse of their priority order, two of
\* them in one quadrant
C6_Witness ==
    /\ call.op = "prioritise_tasks"
    /\ Len(PrevActive) = 3
    /\ AllDated(PrevActive)
    /\ call.ret.raised = "none"
    /\ call.ret.value[1].id = 3 /\ call.ret.value[2].id = 2 /\ call.ret.value[3].id = 1
    /\ Quadrant(call.ret.value[1]) = Quadrant(call.ret.value[2])
    /\ call.ret.value[1].due # call.ret.value[2].due

\* a dated and an undated stored task share a quadrant
MixedQuadrant(tasks) ==
    \E i, j \in 1..Len(tasks) :
        /\ tasks[i].important = tasks[j].important
        /\ tasks[i].urgent = tasks[j].urgent
        /\ "due" \in DOMAIN tasks[i]
        /\ "due" \notin DOMAIN tasks[j]

\* C7: a stored task without a due date sorts as if due at the maximum date,
\* behind the dated tasks of its quadrant, and prioritise_tasks and
\* recommend_tasks_for_today return a result when dated and undated tasks
\* share a quadrant.
C7_UndatedSortsLast ==
    (call.op \in {"prioritise_tasks", "recommend_tasks_for_today"} /\ MixedQuadrant(PrevActive))
    => call.ret.raised = "none"

----------------------------------------------------------------------------
(* The tools applied to backing files in any condition *)

\* longest collection drawn for a backing file
MaxFileLen == 2

\* the arguments of the two stored tasks: one completed, one not
FileArgs == {ReportArgs(1) @@ [completed |-> TRUE], CallArgs(2)}

FileKinds == {stored_dict(args) : args \in FileArgs}

\* what a backing file can hold: nothing (no file), bytes that are not
\* UTF-8 text, text that is not JSON, JSON that is not a list, or a list of
\* task dicts
FileStates ==
    {MissingFile, UnreadableFile, MalformedFile, NonListFile}
    \cup {ListFile(tasks) : tasks \in SeqsUpTo(FileKinds, MaxFileLen)}

InitFiles ==
    /\ todos_json \in FileStates
    /\ archive_json \in FileStates
    /\ call = NoCall
    /\ inflight = NoRequests

NextFiles ==
    \/ \E args \in FileArgs :
           StoredCount < MaxFileLen /\ Whole(add_task(args))
    \/ Whole(list_tasks)
    \/ \E task_id \in TaskIds : Whole(explain_task(task_id))
    \/ \E task_id \in TaskIds : Whole(decompose_task(task_id))
    \/ Whole(prioritise_tasks)
    \/ Whole(recommend_tasks_for_today)
    \/ \E task_id \in TaskIds : Whole(mark_task_completed(task_id))
    \/ Whole(archive_completed_tasks)
    \/ Whole(view_archived_tasks)

SpecFiles == InitFiles /\ [][NextFiles]_vars

\* the tools that read the active file
ReadsActive ==
    {"add_task", "list_tasks", "explain_task", "decompose_task", "prioritise_tasks",
     "recommend_tasks_for_today", "mark_task_completed", "archive_completed_tasks"}

\* the call read the archive file: view_archived_tasks always does,
\* archive_completed_tasks does once it found a completed task
ReadArchive ==
    \/ call.op = "view_archived_tasks"
    \/ /\ call.op = "archive_completed_tasks"
       /\ \E i \in 1..Len(PrevActive) : FlagSet(PrevActive[i])

\* the file held no list of tasks
NotAList(file) == file.kind # "list"

\* C11: a read of the active or of the archive file that finds it missing,
\* unreadable, malformed or holding JSON that is not a list never fails:
\* the call does not raise, and archive_completed_tasks goes on from an empty
\* archive.
C11_ReadsDegradeToEmpty ==
    /\ (call.op \in ReadsActive /\ NotAList(call.pre_todos))
       => call.ret.raised = "none"
    /\ (ReadArchive /\ NotAList(call.pre_archive))
       => /\ call.ret.raised = "none"
          /\ call.op = "archive_completed_tasks"
             => Archived = completed_tasks(PrevActive)

----------------------------------------------------------------------------
(* decompose_task applied to stored descriptions *)

\* longest description drawn
MaxDescLen == 4

\* a letter, a blank, a line break, a full stop and an exclamation mark
DescChars == {"a", " ", "\n", ".", "!"}

\* the description "a. b. c."
ThreeSentences == <<"a", ".", " ", "b", ".", " ", "c", ".">>

Descriptions == SeqsUpTo(DescChars, MaxDescLen) \cup {ThreeSentences}

\* the stored task with id 1 and the drawn description
described_dict(description) ==
    [stored_dict(ReportArgs(1)) EXCEPT !.description = description]

\* the active collections drawn: the described task, alone or behind a task
\* with another id, alone or in front of a second task with its id
InitDecompose ==
    /\ \E description \in Descriptions :
       \E before \in {<<>>, <<stored_dict(CallArgs(2))>>} :
       \E after \in {<<>>, <<stored_dict(CallArgs(1))>>} :
           todos_json = ListFile(before \o <<described_dict(description)>> \o after)
    /\ archive_json = MissingFile
    /\ call = NoCall
    /\ inflight = NoRequests

NextDecompose ==
    \/ \E task_id \in TaskIds : Whole(decompose_task(task_id))
    \/ Whole(list_tasks)

SpecDecompose == InitDecompose /\ [][NextDecompose]_vars

\* punctuation that ends a sentence
Terminators == {".", "!", "?"}

\* the fragment is trimmed: it neither starts nor ends with whitespace
IsTrimmed(s) == s = <<>> \/ (~IsSpace(s[1]) /\ ~IsSpace(s[Len(s)]))

\* decompose_task found a stored task with the id, at position FirstWithId
DecomposeFound ==
    /\ call.op = "decompose_task"
    /\ FirstWithId # 0

\* the call returned the list it stored as the subtasks of the first match,
\* and left every other field and every other record as it was
SubtasksOverwritten ==
    LET i == FirstWithId
    IN  /\ call.ret.raised = "none"
        /\ todos_json.kind = "list"
        /\ Len(Active) = Len(PrevActive)
        /\ Active[i] = [PrevActive[i] EXCEPT !.subtasks = call.ret.value]
        /\ \A j \in 1..Len(Active) : j # i => Active[j] = PrevActive[j]
        /\ archive_json = call.pre_archive

\* the places where s is cut: in front of it, behind it, and at each c
CutsAt(s, c) == {0, Len(s) + 1} \cup {k \in 1..Len(s) : s[k] = c}

\* s without its leading and trailing whitespace, by position
Trimmed(s) ==
    LET solid == {k \in 1..Len(s) : ~IsSpace(s[k])}
    IN  IF solid = {} THEN <<>>
        ELSE SubSeq(s, CHOOSE k \in solid : \A m \in solid : k <= m,
                       CHOOSE k \in solid : \A m \in solid : m <= k)

\* the trimmed text between the cut at a and the next cut
FragmentFrom(s, c, a) ==
    LET b == CHOOSE b \in CutsAt(s, c) :
                 b > a /\ \A m \in CutsAt(s, c) : m > a => b <= m
    IN  Trimmed(SubSeq(s, a + 1, b - 1))

\* the cuts of s that start a fragment with something in it, in order
FragmentStarts(s, c) ==
    LET starts == {a \in CutsAt(s, c) \ {Len(s) + 1} : FragmentFrom(s, c, a) # <<>>}
    IN  CHOOSE f \in [1..Cardinality(starts) -> starts] :
            \A i, j \in 1..Cardinality(starts) : i < j => f[i] < f[j]

\* the non-empty trimmed pieces of s between its characters c, in order
FragmentsBetween(s, c) ==
    [n \in 1..Len(FragmentStarts(s, c)) |-> FragmentFrom(s, c, FragmentStarts(s, c)[n])]

\* C12 as stated: decompose_task splits the description of the first match on
\* sentence-terminating punctuation into trimmed, non-empty fragments that
\* hold no terminator, stores them as its subtasks and returns them.
C12_SplitsOnTerminators ==
    DecomposeFound =>
        /\ SubtasksOverwritten
        /\ \A n \in 1..Len(call.ret.value) :
               /\ call.ret.value[n] # <<>>
               /\ IsTrimmed(call.ret.value[n])
               /\ \A k \in 1..Len(call.ret.value[n]) :
                      call.ret.value[n][k] \notin Terminators

\* C12: decompose_task splits the description of the first task with the id
\* on full stops only: the fragments are the non-empty trimmed pieces between
\* the full stops, in order; they hold no full stop but may hold "!" or "?".
\* The list replaces that task's subtasks, is saved, and is returned.
C12_SplitsOnFullStops ==
    DecomposeFound =>
        /\ SubtasksOverwritten
        /\ call.ret.value
               = FragmentsBetween(PrevActive[FirstWithId].description, ".")
        /\ \A n \in 1..Len(call.ret.value) :
               /\ call.ret.value[n] # <<>>
               /\ IsTrimmed(call.ret.value[n])
               /\ \A k \in 1..Len(call.ret.value[n]) : call.ret.value[n][k] # "."

\* three sentences ended by full stops, in the second of three stored tasks,
\* gave three fragments
C12_Witness ==
    /\ DecomposeFound
    /\ Len(PrevActive) = 3
    /\ FirstWithId = 2
    /\ PrevActive[2].description = ThreeSentences
    /\ call.ret.value = <<<<"a">>, <<"b">>, <<"c">>>>
    /\ Active[2].subtasks = <<<<"a">>, <<"b">>, <<"c">>>>
    /\ Active[3].subtasks = <<<<"d">>>>

----------------------------------------------------------------------------
(* The text json.dump(tasks, f, indent=2, default=str) writes, by length *)

\* characters written for one character of a string: a line break is
\* written as the two characters \n
json_char_len(c) == IF c = "\n" THEN 2 ELSE 1

RECURSIVE json_chars_len(_)
json_chars_len(s) ==
    IF s = <<>> THEN 0 ELSE json_char_len(Head(s)) + json_chars_len(Tail(s))

\* a string between its quotes
json_str_len(s) == 2 + json_chars_len(s)

\* the subtask strings, each on its line behind six blanks
RECURSIVE json_lines_len(_)
json_lines_len(subtasks) ==
    IF subtasks = <<>> THEN 0
    ELSE 6 + json_str_len(Head(subtasks)) + json_lines_len(Tail(subtasks))

\* [] or "[", a line per string with ",\n" between, a line break, four
\* blanks and "]"
json_subtasks_len(subtasks) ==
    IF subtasks = <<>> THEN 2
    ELSE 2 + json_lines_len(subtasks) + 2 * (Len(subtasks) - 1) + 6

json_value_len(key, v) ==
    CASE key = "id" -> Len(Decimal(v))
      [] key = "title" -> 2 + Len(v)
      [] key = "description" -> json_str_len(v)
      [] key = "due" -> json_str_len(v.chars)
      [] key = "subtasks" -> json_subtasks_len(v)
      [] OTHER -> IF v THEN 4 ELSE 5

\* four blanks, the quoted key, ": " and the value
json_entry_len(t, key) == 4 + (2 + Len(key)) + 2 + json_value_len(key, t[key])

RECURSIVE json_entries_len(_, _)
json_entries_len(t, keys) ==
    IF keys = {} THEN 0
    ELSE LET key == CHOOSE key \in keys : TRUE
         IN  json_entry_len(t, key) + json_entries_len(t, keys \ {key})

\* "{", a line per entry with ",\n" between, a line break, two blanks and "}"
json_dict_len(t) ==
    2 + json_entries_len(t, DOMAIN t) + 2 * (Cardinality(DOMAIN t) - 1) + 4

\* the dicts, each behind two blanks
RECURSIVE json_dicts_len(_)
json_dicts_len(tasks) ==
    IF tasks = <<>> THEN 0
    ELSE 2 + json_dict_len(Head(tasks)) + json_dicts_len(Tail(tasks))

\* [] or "[", the dicts with ",\n" between, a line break and "]"
json_text_len(tasks) ==
    IF tasks = <<>> THEN 2
    ELSE 2 + json_dicts_len(json_dump(tasks)) + 2 * (Len(tasks) - 1) + 2

----------------------------------------------------------------------------
(* Two requests against one todos.json, their loads and saves as steps *)

\* longest active collection the two requests start from
MaxSharedLen == 1

Slots == {1, 2}

\* a request that has not started
Idle ==
    [pc |-> "idle", op |-> "none", task_id |-> 0, args |-> NoArgs,
     tasks |-> <<>>, ret |-> Returned(<<>>)]

\* the steps taken so far, with the list each step read or wrote
Logged(slot, step, tasks) ==
    Append(inflight.log, [slot |-> slot, step |-> step, tasks |-> tasks])

\* the request in a slot moves on
Moved(slot, request, step, tasks) ==
    inflight' = [req |-> [inflight.req EXCEPT ![slot] = request],
                 log |-> Logged(slot, step, tasks)]

\* add_task up to its save: validate, load, append the dumped model
begin_add_task(slot, args) ==
    /\ inflight.req[slot].pc = "idle"
    /\ TaskIsValid(args)
    /\ LET new_task == Task(args)
           loaded == load_tasks(todos_json)
           tasks == Append(loaded, model_dump(new_task))
       IN  Moved(slot, [pc |-> "save", op |-> "add_task", task_id |-> 0,
                        args |-> args, tasks |-> tasks, ret |-> Returned(new_task)],
                 "load", loaded)
    /\ UNCHANGED <<todos_json, archive_json, call>>

\* mark_task_completed up to its save: load, set the flag on the first
\* match; without a match the request ends here
begin_mark_task_completed(slot, task_id) ==
    /\ inflight.req[slot].pc = "idle"
    /\ LET loaded == load_tasks(todos_json)
           i == first_match(loaded, task_id)
       IN  IF i # 0
           THEN Moved(slot, [pc |-> "save", op |-> "mark_task_completed",
                             task_id |-> task_id, args |-> NoArgs,
                             tasks |-> [loaded EXCEPT ![i] = dict_set(loaded[i], "completed", TRUE)],
                             ret |-> Returned([msg |-> "Task {} marked as completed.",
                                               id |-> task_id])],
                      "load", loaded)
           ELSE Moved(slot, [pc |-> "done", op |-> "mark_task_completed",
                             task_id |-> task_id, args |-> NoArgs, tasks |-> loaded,
                             ret |-> Returned([msg |-> "Task {} not found.",
                                               id |-> task_id])],
                      "load", loaded)
    /\ UNCHANGED <<todos_json, archive_json, call>>

\* _save_tasks, open(DATA_PATH, "w"): the file is cut to nothing
save_open(slot) ==
    /\ inflight.req[slot].pc = "save"
    /\ todos_json' = TruncatedFile
    /\ Moved(slot, [inflight.req[slot] EXCEPT !.pc = "write"],
             "open", inflight.req[slot].tasks)
    /\ UNCHANGED <<archive_json, call>>

\* what the file can hold after the text of tasks was written from its
\* start: the text alone, unless the file already held a longer text, whose
\* end then stays behind it. A file whose length is not known gives either.
written_files(file, tasks) ==
    IF file.kind \in {"missing", "truncated"} THEN {save_tasks(tasks)}
    ELSE IF file.kind = "list"
    THEN IF json_text_len(file.data) > json_text_len(tasks)
         THEN {MalformedFile} ELSE {save_tasks(tasks)}
    ELSE {MalformedFile, save_tasks(tasks)}

\* _save_tasks, json.dump and the close of the file: the text reaches the file
save_write(slot) ==
    /\ inflight.req[slot].pc = "write"
    /\ todos_json' \in written_files(todos_json, inflight.req[slot].tasks)
    /\ Moved(slot, [inflight.req[slot] EXCEPT !.pc = "done"],
             "write", inflight.req[slot].tasks)
    /\ UNCHANGED <<archive_json, call>>

\* the process that runs the request ends between open and write
save_interrupted(slot) ==
    /\ inflight.req[slot].pc = "write"
    /\ Moved(slot, [inflight.req[slot] EXCEPT !.pc = "stopped"],
             "stop", inflight.req[slot].tasks)
    /\ UNCHANGED <<todos_json, archive_json, call>>

\* the tasks the two requests add
SharedArgs == {ReportArgs(1), CallArgs(2)}

InitConcurrent ==
    /\ todos_json \in {MissingFile}
                      \cup {ListFile(tasks) :
                               tasks \in SeqsUpTo({stored_dict(args) : args \in SharedArgs},
                                                  MaxSharedLen)}
    /\ archive_json = MissingFile
    /\ call = NoCall
    /\ inflight = [req |-> [slot \in Slots |-> Idle],
                   log |-> <<[slot |-> 0, step |-> "initial",
                              tasks |-> load_tasks(todos_json)]>>]

NextConcurrent ==
    \/ \E slot \in Slots : \E args \in SharedArgs : begin_add_task(slot, args)
    \/ \E slot \in Slots : \E task_id \in TaskIds : begin_mark_task_completed(slot, task_id)
    \/ \E slot \in Slots : save_open(slot)
    \/ \E slot \in Slots : save_write(slot)
    \/ \E slot \in Slots : save_interrupted(slot)
    \/ Whole(list_tasks)

SpecConcurrent == InitConcurrent /\ [][NextConcurrent]_vars

\* the place of a step of a slot in the log, 0 when it was not taken
StepAt(slot, step) ==
    LET at == {k \in 1..Len(inflight.log) :
                  inflight.log[k].slot = slot /\ inflight.log[k].step = step}
    IN  IF at = {} THEN 0 ELSE CHOOSE k \in at : TRUE

\* both requests loaded before either began to save
BothLoadedFirst ==
    \A a, b \in Slots :
        /\ StepAt(a, "load") # 0
        /\ StepAt(b, "open") # 0 => StepAt(a, "load") < StepAt(b, "open")

\* both requests saved, b later than a: it opened later and wrote later
SavedLater(a, b) ==
    /\ a # b
    /\ inflight.req[a].pc = "done" /\ inflight.req[b].pc = "done"
    /\ StepAt(a, "open") # 0 /\ StepAt(a, "open") < StepAt(b, "open")
    /\ StepAt(a, "write") # 0 /\ StepAt(a, "write") < StepAt(b, "write")

\* C13: when two mutating calls both load the active collection before
\* either saves, the final active collection is exactly what the later save
\* wrote, without the effect of the earlier one (at most one record more than
\* was loaded), and neither call raises.
C13_LaterSaveWins ==
    \A a, b \in Slots :
        (inflight.req # <<>> /\ BothLoadedFirst /\ SavedLater(a, b))
        => /\ todos_json = save_tasks(inflight.req[b].tasks)
           /\ Len(Active) <= Len(inflight.log[StepAt(b, "load")].tasks) + 1
           /\ inflight.req[a].ret.raised = "none"
           /\ inflight.req[b].ret.raised = "none"

\* the complete collections: the one the requests started from and the ones
\* a request has begun to save
CompleteCollections ==
    {inflight.log[k].tasks :
        k \in {k \in 1..Len(inflight.log) : inflight.log[k].step \in {"initial", "open"}}}

\* C14: a save replaces the active collection atomically: whatever a load
\* observes while a save is in progress or after one was interrupted is the
\* complete previous collection or a complete new one, never an empty or
\* cut one.
C14_SaveIsAtomic ==
    (inflight.req # <<>> /\ call.op = "list_tasks")
    => \E tasks \in CompleteCollections :
           call.ret = list_tasks_ret(save_tasks(tasks))

----------------------------------------------------------------------------
(* Claims about what the tools leave unchanged *)

\* mark_task_completed found a stored task with the id
MarkFound ==
    /\ call.op = "mark_task_completed"
    /\ FirstWithId # 0

\* C15: when the id is present, mark_task_completed sets completed on the
\* first active record with that id and changes nothing else: the record's
\* other fields, every other record (later ones with the same id included),
\* the length and order of the active collection and the archive stay.
C15_MarkChangesOnlyTheFlag ==
    MarkFound =>
        /\ call.ret.raised = "none"
        /\ Len(Active) = Len(PrevActive)
        /\ Active[FirstWithId] = [PrevActive[FirstWithId] EXCEPT !.completed = TRUE]
        /\ \A j \in 1..Len(Active) : j # FirstWithId => Active[j] = PrevActive[j]
        /\ archive_json = call.pre_archive

\* two incomplete tasks share the id; the first is marked, the second stays
C15_Witness ==
    /\ MarkFound
    /\ Len(PrevActive) = 2
    /\ PrevActive[1].id = call.task_id /\ PrevActive[2].id = call.task_id
    /\ ~PrevActive[1].completed /\ ~PrevActive[2].completed
    /\ Active[1].completed /\ ~Active[2].completed

----------------------------------------------------------------------------
(* Claims that compare the two ordering tools *)

\* the stored records whose completed flag is false, in stored order
Eligible == SelectSeq(PrevActive, FlagClear)

\* the first n entries of a list, or all of it when it is shorter
FirstN(list, n) == SubSeq(list, 1, IF Len(list) < n THEN Len(list) ELSE n)

SameKey(a, b) ==
    a.important = b.important /\ a.urgent = b.urgent /\ a.due = b.due

\* C17: the ordering of prioritise_tasks and recommend_tasks_for_today is
\* stable: two tasks with equal (important, urgent, due) come out in the
\* order in which they are stored. Stored tasks carry their position as id.
C17_OrderingIsStable ==
    (call.op \in {"prioritise_tasks", "recommend_tasks_for_today"}
     /\ call.ret.raised = "none")
    => \A i, j \in 1..Len(call.ret.value) :
           (i < j /\ SameKey(call.ret.value[i], call.ret.value[j]))
           => call.ret.value[i].id < call.ret.value[j].id

\* the first and the third stored task have equal keys and the second sorts
\* in front of both
C17_Witness ==
    /\ call.op = "prioritise_tasks"
    /\ call.ret.raised = "none"
    /\ Len(PrevActive) = 3
    /\ \A i \in 1..3 : PrevActive[i].id = i
    /\ call.ret.value[1].id = 2 /\ call.ret.value[2].id = 1 /\ call.ret.value[3].id = 3
    /\ SameKey(call.ret.value[2], call.ret.value[3])

----------------------------------------------------------------------------
(* Claims about the way from the active collection to the archive *)

IsPrefixOf(a, b) == Len(a) <= Len(b) /\ SubSeq(b, 1, Len(a)) = a

\* a record without the two fields the tools rewrite
Core(t) == [k \in DOMAIN t \ {"completed", "subtasks"} |-> t[k]]

\* the records of after are records of before, in their order, changed in
\* completed and subtasks at most: none of them came from elsewhere
KeptFrom(after, before) ==
    \E f \in [1..Len(after) -> 1..Len(before)] :
        /\ \A i, j \in 1..Len(after) : i < j => f[i] < f[j]
        /\ \A i \in 1..Len(after) : Core(after[i]) = Core(before[f[i]])

----------------------------------------------------------------------------
(* archive_completed_tasks with its two writes as steps *)

\* archive_completed_tasks up to and with its write of the active file:
\* load, partition, return early when nothing is completed, save the
\* incomplete tasks
begin_archive_completed_tasks(slot) ==
    /\ inflight.req[slot].pc = "idle"
    /\ LET tasks == load_tasks(todos_json)
           completed == completed_tasks(tasks)
           incomplete == incomplete_tasks(tasks)
           request == [Idle EXCEPT !.op = "archive_completed_tasks"]
       IN  IF load_raises(todos_json)
           THEN /\ Moved(slot, [request EXCEPT !.pc = "done",
                                               !.ret = Raised("UnicodeDecodeError")],
                         "load", tasks)
                /\ todos_json' = todos_json
           ELSE IF completed = <<>>
           THEN /\ Moved(slot, [request EXCEPT !.pc = "done",
                                               !.ret = Returned([msg |-> "No completed tasks to archive.",
                                                                 n |-> 0])],
                         "load", tasks)
                /\ todos_json' = todos_json
           ELSE /\ Moved(slot, [request EXCEPT !.pc = "archive", !.tasks = completed],
                         "write", incomplete)
                /\ todos_json' = save_tasks(incomplete)
    /\ UNCHANGED <<archive_json, call>>

\* the rest of archive_completed_tasks: read the archive, extend it by the
\* completed tasks, write it
finish_archive_completed_tasks(slot) ==
    /\ inflight.req[slot].pc = "archive"
    /\ LET completed == inflight.req[slot].tasks
       IN  IF read_archive_error(archive_json) # "none"
           THEN /\ Moved(slot, [inflight.req[slot] EXCEPT
                                   !.pc = "done",
                                   !.ret = Raised(read_archive_error(archive_json))],
                         "raise", completed)
                /\ archive_json' = archive_json
           ELSE /\ Moved(slot, [inflight.req[slot] EXCEPT
                                   !.pc = "done",
                                   !.ret = Returned([msg |-> "Archived {} completed tasks.",
                                                     n |-> Len(completed)])],
                         "write", completed)
                /\ archive_json' = ListFile(json_dump(read_archive(archive_json) \o completed))
    /\ UNCHANGED <<todos_json, call>>

\* the process that runs the request ends between the two writes
archive_interrupted(slot) ==
    /\ inflight.req[slot].pc = "archive"
    /\ Moved(slot, [inflight.req[slot] EXCEPT !.pc = "stopped"],
             "stop", inflight.req[slot].tasks)
    /\ UNCHANGED <<todos_json, archive_json, call>>

InitArchiveSteps ==
    /\ todos_json \in {ListFile(tasks) : tasks \in SeqsUpTo(FileKinds, MaxFileLen)}
    /\ archive_json \in FileStates
    /\ call = NoCall
    /\ inflight = [req |-> [slot \in {1} |-> Idle],
                   log |-> <<[slot |-> 0, step |-> "initial",
                              tasks |-> load_tasks(todos_json)]>>]

NextArchiveSteps ==
    \/ begin_archive_completed_tasks(1)
    \/ finish_archive_completed_tasks(1)
    \/ archive_interrupted(1)
    \/ Whole(list_tasks)
    \/ Whole(view_archived_tasks)

SpecArchiveSteps == InitArchiveSteps /\ [][NextArchiveSteps]_vars

\* the records that were active when the request began
ActiveAtStart == inflight.log[1].tasks

\* C19: from the start of archive_completed_tasks on, between its two writes
\* and when it stops there or fails on the archive included, every record
\* that was active before the call is in the active or in the archive
\* collection: no completed task is in neither.
C19_NoTaskInNeither ==
    (inflight.req # <<>> /\ inflight.req[1].op = "archive_completed_tasks")
    => \A i \in 1..Len(ActiveAtStart) :
           \/ \E j \in 1..Len(Active) : Active[j] = ActiveAtStart[i]
           \/ \E j \in 1..Len(Archived) : Archived[j] = ActiveAtStart[i]

----------------------------------------------------------------------------
(* Claims about the tools that only read *)

QueryOps ==
    {"list_tasks", "explain_task", "prioritise_tasks", "recommend_tasks_for_today",
     "view_archived_tasks"}

\* the stored records as Tasks, in stored order
StoredOrder == [i \in 1..Len(PrevActive) |-> ListedAs(PrevActive[i])]

\* C20: list_tasks, explain_task, prioritise_tasks, recommend_tasks_for_today
\* and view_archived_tasks never write: whatever the two files hold, both are
\* after the call what they were before it. list_tasks returns the stored
\* active records in stored order.
C20_QueriesDoNotWrite ==
    call.op \in QueryOps
    => /\ StorageUnchanged
       /\ (call.op = "list_tasks" /\ call.pre_todos.kind = "list")
          => call.ret = Returned(StoredOrder)

\* prioritise_tasks returned the two stored tasks in the other order and
\* left them stored as they were
C20_Witness ==
    /\ call.op = "prioritise_tasks"
    /\ call.ret.raised = "none"
    /\ Len(PrevActive) = 2
    /\ PrevActive[1].id # PrevActive[2].id
    /\ call.ret.value[1].id = PrevActive[2].id
    /\ Active = PrevActive
    /\ archive_json = call.pre_archive

====
